---------------------------- MODULE Spec2Model ----------------------------
(***************************************************************************)
(* A model of pyptex (src/pyptex/__init__.py): the tokenizer               *)
(* (pypparser / pyptex.process), the dependency table (dep, resolvedeps,   *)
(* format_my_nanos) and the compile protocol with its persistent cache     *)
(* (pyptex.__init__, pyptex.compile).                                      *)
(*                                                                         *)
(* Nine specifications share the variables:                                *)
(*   Spec      one document compiled again and again while its files and   *)
(*             dependencies change;                                        *)
(*   TokSpec   process on its own, match by match;                         *)
(*   DepSpec   the dependency table under dep and resolvedeps;             *)
(*   FigSpec   the figures under run, showall and mylatex;                 *)
(*   NestSpec  a document that composes another one with pyp.input;        *)
(*   RunSpec   run on the fragments of one pass;                           *)
(*   RecSpec   one document compiled again while the record in a.pickle    *)
(*             loses fields;                                               *)
(*   CompSpec  the figures when a fragment calls pyp.input;                *)
(*   RaceSpec  a dependency written while compile runs.                    *)
(*                                                                         *)
(* Text is a sequence of atoms.  An atom is one character ("@", "%", "{",  *)
(* "}", "[", "]", "\\", "\n", "1") or a run of letters taken as a unit     *)
(* ("verbatim", "x", "y", "u", "t", "d", "n", "r", "i", "a").  Letter atoms inside a fragment  *)
(* body are tiny programs, see Statement.                                  *)
(***************************************************************************)
EXTENDS Integers, Sequences, FiniteSets, TLC

(***************************************************************************)
(* Bounds of the model.                                                    *)
(***************************************************************************)
MaxRuns == 2
MaxEnv == 1
MaxPieces == 3
MaxCalls == 3
MaxFrags == 4

(***************************************************************************)
(* Helpers on sequences.                                                   *)
(***************************************************************************)
Min(J) == CHOOSE j \in J : \A k \in J : j <= k

RECURSIVE Flatten(_)
Flatten(ss) == IF ss = <<>> THEN <<>> ELSE Head(ss) \o Flatten(Tail(ss))

Count(S, a, lo, hi) == Cardinality({j \in lo..hi : S[j] = a})

Range(S) == {S[j] : j \in 1..Len(S)}

\* pypparser (line 215), compiled with re.DOTALL, is the alternation of
\*   group 1: an unescaped "%", any atoms but "\n", then "\n";
\*   group 2: "@@";
\*   group 3: "@", an optional "[" letters "]", then either "{" body "}" with a
\*            non-empty body free of braces, or "{{{" body "}}}" with the
\*            shortest body (any atoms, possibly none).
Letters == {"verbatim", "x", "t", "d", "n", "a"}

At(S, i) == IF i >= 1 /\ i <= Len(S) THEN S[i] ELSE "<eof>"

\* group 1: an unescaped "%", then [^\n]*, then a "\n" that must be there.
CommentEnd(S, i) ==
    LET J == {j \in (i + 1)..Len(S) : S[j] = "\n"}
    IN  IF At(S, i) = "%" /\ At(S, i - 1) /= "\\" /\ J /= {} THEN Min(J) ELSE 0

\* group 2: "@@".
EscapeEnd(S, i) == IF At(S, i) = "@" /\ At(S, i + 1) = "@" THEN i + 1 ELSE 0

\* (\[([a-zA-Z]*)\])? after the "@" at i: the option letters and the index of the
\* atom that follows the group.  The group is skipped when it does not match.
OptionAt(S, i) ==
    LET J == {j \in (i + 2)..(Len(S) + 1) : At(S, j) \notin Letters}
        j == Min(J)
    IN  IF At(S, i + 1) = "[" /\ At(S, j) = "]"
        THEN [o |-> SubSeq(S, i + 2, j - 1), next |-> j + 1]
        ELSE [o |-> <<>>, next |-> i + 1]

\* {([^{}]+)} at p: the index of the closing brace, 0 when there is no match.
BraceEnd(S, p) ==
    LET J == {j \in (p + 1)..(Len(S) + 1) : At(S, j) \in {"{", "}", "<eof>"}}
        j == Min(J)
    IN  IF At(S, p) = "{" /\ j > p + 1 /\ At(S, j) = "}" THEN j ELSE 0

\* {{{(.*?)}}} at p: the index of the first of the closing braces (the lazy
\* body ends at the first "}}}"), 0 when there is no match.
TripleEnd(S, p) ==
    LET J == {j \in (p + 3)..Len(S) :
                At(S, j) = "}" /\ At(S, j + 1) = "}" /\ At(S, j + 2) = "}"}
    IN  IF At(S, p) = "{" /\ At(S, p + 1) = "{" /\ At(S, p + 2) = "{" /\ J /= {}
        THEN Min(J) ELSE 0

NoMatch == [kind |-> "none", end |-> 0, body |-> <<>>, o |-> <<>>, k |-> 0, z0 |-> 0]

\* group 3 at i, with do_work's choice of z, z0 and o (lines 491-497) and the
\* line number ln[z0] (lines 483-484).
FragmentAt(S, i) ==
    LET opt == OptionAt(S, i)
        p   == opt.next
        b   == BraceEnd(S, p)
        t   == TripleEnd(S, p)
    IN  IF At(S, i) /= "@" THEN NoMatch
        ELSE IF b > 0
        THEN [kind |-> "fragment", end |-> b, body |-> SubSeq(S, p + 1, b - 1),
              o |-> opt.o, k |-> Count(S, "\n", 1, p), z0 |-> p + 1]
        ELSE IF t > 0
        THEN [kind |-> "fragment", end |-> t + 2, body |-> SubSeq(S, p + 3, t - 1),
              o |-> opt.o, k |-> Count(S, "\n", 1, p + 2), z0 |-> p + 3]
        ELSE NoMatch

\* The leftmost match at i, the alternatives in the order of the pattern.
MatchAt(S, i) ==
    IF CommentEnd(S, i) > 0
    THEN [kind |-> "comment", end |-> CommentEnd(S, i), body |-> <<>>, o |-> <<>>,
          k |-> 0, z0 |-> 0]
    ELSE IF EscapeEnd(S, i) > 0
    THEN [kind |-> "escape", end |-> EscapeEnd(S, i), body |-> <<>>, o |-> <<>>,
          k |-> 0, z0 |-> 0]
    ELSE FragmentAt(S, i)

\* re.sub (line 501): the tokens of S from i on, left to right; an atom where
\* nothing matches is copied and the scan moves on by one.
RECURSIVE TokensFrom(_, _)
TokensFrom(S, i) ==
    IF i > Len(S) THEN <<>>
    ELSE LET m == MatchAt(S, i)
         IN  IF m.kind = "none"
             THEN <<[kind |-> "literal", start |-> i, end |-> i, body |-> <<>>,
                     o |-> <<>>, k |-> 0]>> \o TokensFrom(S, i + 1)
             ELSE <<[kind |-> m.kind, start |-> i, end |-> m.end, body |-> m.body,
                     o |-> m.o, k |-> m.k]>> \o TokensFrom(S, m.end + 1)

Tokens(S) == TokensFrom(S, 1)

IsFragment(tok) == tok.kind = "fragment"

\* The handler calls process makes on S, in order: runner(z, ln[z0], o).
Calls(S) == SelectSeq(Tokens(S), IsFragment)

\* lines in one fragment as counted into self.lc (line 498).
LineCount(body) == Count(body, "\n", 1, Len(body)) + 1

RECURSIVE SumLines(_)
SumLines(cs) == IF cs = <<>> THEN 0 ELSE LineCount(Head(cs).body) + SumLines(Tail(cs))

\* do_work's return value for a token that is no fragment (lines 487-490).
Keep(S, tok) == IF tok.kind = "escape" THEN <<"@">> ELSE SubSeq(S, tok.start, tok.end)

\* The text process returns when the n-th handler call returned repl[n].
RECURSIVE Splice(_, _, _)
Splice(S, toks, repl) ==
    IF toks = <<>> THEN <<>>
    ELSE IF IsFragment(Head(toks))
    THEN Head(repl) \o Splice(S, Tail(toks), Tail(repl))
    ELSE Keep(S, Head(toks)) \o Splice(S, Tail(toks), repl)

process(S, repl) == Splice(S, Tokens(S), repl)


(***************************************************************************)
(* Dependencies.  A resource on disk is <<>> when it does not exist and    *)
(* <<m>> when it exists with st_mtime_ns = Epoch + m, where Epoch is a     *)
(* multiple of 2 * ULP between 2^60 and 2^61 (any date from 2006 to 2043). *)
(* A token of the dependency table is <<>> for '' and <<date, nanos>> for  *)
(* the string format_my_nanos returns.                                     *)
(***************************************************************************)
ULP == 256
NanosPerSec == 1000000000
HalfMicro == 500

ModuleFile == "pyptex.py"
Resources == {ModuleFile, "R"}
MTimes == {0, 100, 1000}

\* int -> float, as nanos / 1e9 and nanos % 1e9 convert nanos (lines 224-225):
\* a double between 2^60 and 2^61 is a multiple of ULP, ties go to the even one.
ToFloat(m) ==
    LET q == m \div ULP
        r == m % ULP
    IN  IF 2 * r < ULP THEN q * ULP
        ELSE IF 2 * r > ULP THEN (q + 1) * ULP
        ELSE IF q % 2 = 0 THEN q * ULP ELSE (q + 1) * ULP

\* format_my_nanos (lines 222-225): the date to the second, of the quotient that
\* fromtimestamp rounds to the microsecond, and nanos % 1e9 printed with no
\* decimals.  The date is kept as seconds since Epoch; the time zone and the
\* rounding of the quotient itself are left out, MTimes stays clear of both.
format_my_nanos(m) ==
    <<(ToFloat(m) + HalfMicro) \div NanosPerSec, ToFloat(m) % NanosPerSec>>

EmptyDeps == [r \in {} |-> <<>>]

\* Variant: a key that is in the table keeps its token.
depIfAbsent(deps, filename) ==
    [r \in DOMAIN deps \cup {filename} |-> IF r \in DOMAIN deps THEN deps[r] ELSE <<>>]

\* pyptex.dep (lines 659-660): self.deps[filename] = ''.
dep(deps, filename) ==
    [r \in DOMAIN deps \cup {filename} |-> IF r = filename THEN <<>> ELSE deps[r]]

\* Variant: the table is not seeded with the keys of the record.
depNone(deps, keys) == deps

\* lines 549-550: for k in cache['deps']: self.dep(k)
RECURSIVE depAll(_, _)
depAll(deps, keys) ==
    IF keys = {} THEN deps
    ELSE LET k == CHOOSE x \in keys : TRUE
         IN  depAll(dep(deps, k), keys \ {k})

\* Variant: a resource that cannot be stat'ed is stamped as one of time 0.
StampEpoch(disk, k) == IF disk[k] = <<>> THEN format_my_nanos(0) ELSE format_my_nanos(disk[k][1])

\* os.stat(k).st_mtime_ns formatted, '' when the stat raises (lines 665-668).
Stamp(disk, k) == IF disk[k] = <<>> THEN <<>> ELSE format_my_nanos(disk[k][1])

\* pyptex.resolvedeps (lines 662-669).
resolvedeps(deps, disk) == [k \in DOMAIN deps |-> Stamp(disk, k)]

(***************************************************************************)
(* Records with a varying set of fields: self.__dict__ and the pickled     *)
(* cache are both name -> value maps.                                      *)
(***************************************************************************)
WithField(r, k, v) == [x \in DOMAIN r \cup {k} |-> IF x = k THEN v ELSE r[x]]

\* for k, v in cache.items(): self.__dict__[k] = v   (lines 577-578)
Update(r, c) == [x \in DOMAIN r \cup DOMAIN c |-> IF x \in DOMAIN c THEN c[x] ELSE r[x]]

\* Variant: a default record that does not disable the cache.
defaultsEnabled ==
    [fragments |-> <<>>, outputs |-> <<>>, deps |-> EmptyDeps, argv |-> <<>>,
     disable_cache |-> FALSE]

\* the defaults of lines 528-534.
defaults ==
    [fragments |-> <<>>, outputs |-> <<>>, deps |-> EmptyDeps, argv |-> <<>>,
     disable_cache |-> TRUE]

\* lines 535-537: a default for every key the loaded cache lacks.
WithDefaults(c) ==
    [x \in DOMAIN c \cup DOMAIN defaults |-> IF x \in DOMAIN c THEN c[x] ELSE defaults[x]]

EmptyCache == [x \in {} |-> <<>>]

\* lines 523-527: the pickle, or {} when opening or unpickling raises.
LoadCache(file) == IF file.state = "ok" THEN file.rec ELSE EmptyCache

(***************************************************************************)
(* The execution engine, as far as the cache can tell.  The atoms of a     *)
(* fragment body run in order in the document's globals:                   *)
(*   "x"  binds the name x and prints "X";                                 *)
(*   "t"  prints the time, which differs from one run of pyptex to the     *)
(*        next (now = the number of the run);                              *)
(*   "d"  prints pyp.dep("R");                                             *)
(*   "n"  is pyp.disable_cache = True;                                     *)
(*   "r"  raises an exception;                                             *)
(*   "y"  binds the name y and prints "Y";                                 *)
(*   "u"  prints x: "X" when the name x is bound, a NameError when not;    *)
(*   "i"  is pyp.input('b.tex'), which is not a statement of this engine   *)
(*        but a constructor call (see Input);                              *)
(*   any other atom does nothing.                                          *)
(* A statement that raises ends the fragment: st.raised is set and the     *)
(* statements after it do not run.                                         *)
(***************************************************************************)
Statement(a, st, now) ==
    IF a = "r" THEN [st EXCEPT !.raised = TRUE]
    ELSE IF a = "u" THEN IF "x" \in st.globals THEN [st EXCEPT !.accum = @ \o <<"X">>]
                         ELSE [st EXCEPT !.raised = TRUE]
    ELSE IF a = "y" THEN [st EXCEPT !.accum = @ \o <<"Y">>, !.globals = @ \cup {"y"}]
    ELSE IF a = "x" THEN [st EXCEPT !.accum = @ \o <<"X">>, !.globals = @ \cup {"x"}]
    ELSE IF a = "t" THEN [st EXCEPT !.accum = @ \o <<"T", ToString(now)>>]
    ELSE IF a = "d" THEN [st EXCEPT !.accum = @ \o <<"R">>, !.deps = dep(@, "R")]
    ELSE IF a = "n" THEN [st EXCEPT !.disable_cache = TRUE]
    ELSE st

RECURSIVE Statements(_, _, _)
Statements(S, st, now) ==
    IF S = <<>> \/ st.raised THEN st
    ELSE Statements(Tail(S), Statement(Head(S), st, now), now)

\* pyptex.run (lines 440-461): the accumulator starts empty (line 446), the
\* fragment runs in self.__globals__, the accumulator is returned.  The values
\* are strings, which mylatex returns unchanged (lines 507-508), so the joined
\* output of line 596 is the accumulator itself.  When the fragment raises,
\* eval or exec (line 452 or 458) does not return and neither does run.
run(S, deps, disable_cache, globals, now) ==
    Statements(S, [accum |-> <<>>, deps |-> deps, disable_cache |-> disable_cache,
                   globals |-> globals, raised |-> FALSE], now)


(***************************************************************************)
(* The documents, invocation arguments and build commands of the model.    *)
(***************************************************************************)
DocTwo == <<"@", "{", "t", "}", "\n", "@", "[", "verbatim", "]", "{", "x", "}", "@", "@">>
DocDep == <<"%", "@", "{", "n", "}", "\n", "@", "{", "d", "}">>
DocNoCache == <<"@", "{", "n", "}", "@", "{", "{", "{", "t", "}", "}", "}">>
DocBadOption == <<"@", "{", "x", "}", "@", "[", "a", "]", "{", "t", "}">>
DocRaise == <<"@", "{", "x", "}", "@", "{", "d", "r", "}", "@", "{", "t", "}">>
Docs == {DocTwo, DocDep, DocNoCache, DocBadOption, DocRaise}

\* pyptexmain (lines 734-735) passes argv[2:] and a build command; a caller of
\* the constructor may pass its own argv and no build command (line 698).
Invocations ==
    {[argv |-> <<>>, latexcommand |-> "latex"], [argv |-> <<"1">>, latexcommand |-> ""],
     [argv |-> <<>>, latexcommand |-> ""]}

VARIABLES
    \* the file system
    texfile,      \* the text of a.tex
    disk,         \* the dependencies: <<>> or <<mtime>> for each resource
    cachefile,    \* a.pickle: [state |-> "missing" | "corrupt" | "ok", rec |-> ...]
    pyptexfile,   \* a.pyptex: [state |-> "missing" | "ok", text |-> ...]
    \* the pyptex instance and the locals of compile()
    pc,           \* where the constructor is
    self,         \* self.__dict__ without the __dunder__ fields
    globals,      \* self.__globals__, as the set of names bound
    text,         \* compile's local text
    cache,        \* compile's local cache
    saveddeps,    \* compile's local saveddeps
    cached,       \* compile's local cached
    rets,         \* what the handler returned, call by call, in the second process
    \* observers, read by no action
    nrun,         \* runs of pyptex so far
    nenv,         \* changes made to the file system from outside so far
    outcome,      \* how the last constructor call ended
    cur,          \* this constructor call
    scanned,      \* the handler calls of the first process (scanner)
    trace,        \* the handler calls of the second process (subber or appender)
    snap,         \* disk and table at the validity decision
    kept,         \* the run that last wrote a.pickle, and disk as it resolved it
    last,         \* the last constructor call that returned
    prev,         \* the one that returned before it
    \* process on its own, one match at a time (TokSpec)
    walk,
    \* the figures of matplotlib and the accumulator of run (FigSpec)
    figs,
    \* a dependency table on its own (DepSpec)
    tab,
    \* the constructor calls that wait in pyp.input, and the files of the
    \* document they are not compiling (NestSpec)
    stack,
    shelf,
    \* run on its own, fragment after fragment (RunSpec)
    eng,
    \* the last write to a dependency that came after its reader (RaceSpec)
    race

sys == <<texfile, disk, cachefile, pyptexfile>>
inst == <<pc, self, globals, text, cache, saveddeps, cached, rets>>
more == <<eng, race>>
ext == <<figs, tab, stack, shelf, more>>
obs == <<nrun, nenv, outcome, cur, scanned, trace, snap, kept, last, prev, walk, ext>>
vars == <<sys, inst, obs>>

NoRun == [n |-> 0]
NoSnap == [disk |-> [r \in Resources |-> <<>>], deps |-> EmptyDeps]

NoWalk == [S |-> <<>>, pos |-> 1, out |-> <<>>, steps |-> <<>>, comment |-> 0]

Start(d) ==
    /\ texfile = d
    /\ disk = [r \in Resources |-> <<0>>]
    /\ cachefile = [state |-> "missing"]
    /\ pyptexfile = [state |-> "missing"]
    /\ pc = "idle"
    /\ self = [x \in {} |-> <<>>]
    /\ globals = {}
    /\ text = <<>>
    /\ cache = EmptyCache
    /\ saveddeps = EmptyDeps
    /\ cached = FALSE
    /\ rets = <<>>
    /\ nrun = 0
    /\ nenv = 0
    /\ outcome = "none"
    /\ cur = NoRun
    /\ scanned = <<>>
    /\ trace = <<>>
    /\ snap = NoSnap
    /\ kept = [n |-> 0, disk |-> [r \in Resources |-> <<>>], nocache |-> FALSE]
    /\ last = NoRun
    /\ prev = NoRun

\* what a specification that does not use them keeps the other variables at
NoFigs == [n |-> 0]
NoTab == [deps |-> EmptyDeps, was |-> EmptyDeps, op |-> "none", id |-> "", ret |-> "", n |-> 0]
NoShelf == [texfile |-> <<>>, cachefile |-> [state |-> "missing"],
            pyptexfile |-> [state |-> "missing"],
            kept |-> [n |-> 0, disk |-> [r \in Resources |-> <<>>], nocache |-> FALSE]]
NoEng == [n |-> 0]
NoRace == [at |-> 0]
Still == eng = NoEng /\ race = NoRace
Apart == figs = NoFigs /\ tab = NoTab /\ stack = <<>> /\ shelf = NoShelf /\ Still

Init == \E d \in Docs : Start(d) /\ walk = NoWalk /\ Apart

(***************************************************************************)
(* The world outside pyptex: the user edits a.tex, a dependency is         *)
(* written or deleted, a.pickle is deleted (line 123) or damaged.  It acts  *)
(* between two runs of pyptex and while the fragments of a run execute: a  *)
(* change at any other point of compile is read by the same statements as  *)
(* one made at the nearest of these two.                                   *)
(***************************************************************************)
Outside == nenv < MaxEnv /\ pc \in {"idle", "subst"}

EditDoc(d) ==
    /\ Outside
    /\ d /= texfile
    /\ texfile' = d
    /\ nenv' = nenv + 1
    /\ UNCHANGED <<disk, cachefile, pyptexfile, inst>>
    /\ UNCHANGED <<nrun, outcome, cur, scanned, trace, snap, kept, last, prev, walk, ext>>

Touch(m) ==
    /\ Outside
    /\ m /= disk["R"]
    /\ disk' = [disk EXCEPT !["R"] = m]
    /\ nenv' = nenv + 1
    /\ UNCHANGED <<texfile, cachefile, pyptexfile, inst>>
    /\ UNCHANGED <<nrun, outcome, cur, scanned, trace, snap, kept, last, prev, walk, ext>>

LoseCache(how) ==
    /\ Outside
    /\ cachefile.state /= how
    /\ cachefile' = [state |-> how]
    /\ nenv' = nenv + 1
    /\ UNCHANGED <<texfile, disk, pyptexfile, inst>>
    /\ UNCHANGED <<nrun, outcome, cur, scanned, trace, snap, kept, last, prev, walk, ext>>

(***************************************************************************)
(* The statements of the constructor and of compile in the order of the    *)
(* source: where control is after the step that starts at p, when the step *)
(* raises nothing.                                                         *)
(***************************************************************************)
\* Variant: compile returns once the output is written.
AfterWriteReturn(p) ==
    CASE p = "idle" -> "compile"
      [] p = "compile" -> "loaded"
      [] p = "loaded" -> "scanned"
      [] p = "scanned" -> "decided"
      [] p = "decided" -> "subst"
      [] p = "subst" -> "idle"
      [] p = "written" -> "saved"
      [] p = "saved" -> "idle"

After(p) ==
    CASE p = "idle" -> "compile"      \* line 418: self.compile()
      [] p = "compile" -> "loaded"    \* lines 521-538
      [] p = "loaded" -> "scanned"    \* lines 540-546
      [] p = "scanned" -> "decided"   \* lines 547-574
      [] p = "decided" -> "subst"     \* lines 575-579 or 589-592
      [] p = "subst" -> "written"     \* lines 588/602-607
      [] p = "written" -> "saved"     \* lines 608-621
      [] p = "saved" -> "idle"        \* lines 622-625, then line 419

(***************************************************************************)
(* pyptex.__init__, lines 393-417, up to the call of compile.              *)
(***************************************************************************)
\* Variant: the new instance runs its fragments in the globals it is made in.
NewScopeShared(outer) == outer

\* line 395: self.__globals__ = {'__builtins__': __builtins__, 'pyp': self},
\* whatever the globals of the caller are.
NewScope(outer) == {"pyp"}

\* lines 393-417: the fields of the new instance
Fresh(argv, latexcommand) ==
    [latexcommand |-> latexcommand, disable_cache |-> FALSE,
     deps |-> dep(EmptyDeps, ModuleFile), lc |-> 0, argv |-> argv, exitcode |-> 0]

Construct(argv, latexcommand) ==
    /\ pc = "idle"
    /\ nrun < MaxRuns
    /\ pc' = After(pc)
    /\ self' = Fresh(argv, latexcommand)
    /\ globals' = NewScope(globals)
    /\ text' = <<>>
    /\ cache' = EmptyCache
    /\ saveddeps' = EmptyDeps
    /\ cached' = FALSE
    /\ rets' = <<>>
    /\ nrun' = nrun + 1
    /\ outcome' = "running"
    /\ cur' = [n |-> nrun + 1, argv |-> argv, envStart |-> nenv, found |-> "",
               persisted |-> FALSE, built |-> FALSE, command |-> latexcommand,
               phases |-> <<>>, out0 |-> pyptexfile, inner |-> <<>>, lacks |-> {}]
    /\ scanned' = <<>>
    /\ trace' = <<>>
    /\ snap' = NoSnap
    /\ UNCHANGED <<sys, nenv, kept, last, prev, walk, ext>>

(***************************************************************************)
(* compile, lines 521-538: read a.tex, load a.pickle, fill in defaults.    *)
(***************************************************************************)
Load ==
    /\ pc = "compile"
    /\ pc' = After(pc)
    /\ text' = texfile
    /\ cache' = WithDefaults(LoadCache(cachefile))
    /\ self' = WithField(self, "fragments", <<>>)
    /\ cur' = [cur EXCEPT !.found = cachefile.state, !.phases = Append(@, "load"),
                          !.lacks = DOMAIN defaults \ DOMAIN LoadCache(cachefile)]
    /\ UNCHANGED <<sys, globals, saveddeps, cached, rets>>
    /\ UNCHANGED <<nrun, nenv, outcome, scanned, trace, snap, kept, last, prev, walk, ext>>

(***************************************************************************)
(* compile, lines 540-546: the first process, with scanner as handler.     *)
(***************************************************************************)
\* Variant: the option is not asserted.
ValidOptionAny(o) == TRUE

\* line 542: assert o in ['', 'verbatim']
ValidOption(o) == o \in {<<>>, <<"verbatim">>}

Bodies(cs) == [i \in 1..Len(cs) |-> cs[i].body]

\* scanner (lines 540-543), call by call: the body is appended, then the
\* option is asserted.  The number of calls made: all of them, or up to the
\* first one whose assertion fails.
ScannerCalls(cs) ==
    LET bad == {i \in 1..Len(cs) : ~ValidOption(cs[i].o)}
    IN  IF bad = {} THEN Len(cs) ELSE Min(bad)

\* Variant: only the fragments whose output is substituted are recorded.
IsPlain(c) == c.o = <<>>

scannerPlainOnly(cs) == Bodies(SelectSeq(SubSeq(cs, 1, ScannerCalls(cs)), IsPlain))

scanner(cs) == Bodies(SubSeq(cs, 1, ScannerCalls(cs)))

Scan ==
    /\ pc = "loaded"
    /\ LET cs == Calls(text)
           n  == ScannerCalls(cs)
           ok == \A i \in 1..Len(cs) : ValidOption(cs[i].o)
       IN  /\ self' = [self EXCEPT !.fragments = scanner(cs),
                                   !.lc = @ + SumLines(SubSeq(cs, 1, n))]
           /\ scanned' = SubSeq(cs, 1, n)
           /\ pc' = IF ok THEN After(pc) ELSE "idle"
           /\ outcome' = IF ok THEN outcome ELSE "AssertionError"
    /\ cur' = [cur EXCEPT !.phases = Append(@, "scan")]
    /\ UNCHANGED <<sys, globals, text, cache, saveddeps, cached, rets>>
    /\ UNCHANGED <<nrun, nenv, trace, snap, kept, last, prev, walk, ext>>


(***************************************************************************)
(* compile, lines 547-574: the table is re-seeded from the keys of the     *)
(* cached record and resolved, then the validity decision.                 *)
(***************************************************************************)
\* Variants of the decision, each with one check left out.
ValidityNoArgv(c, argv, fragments, deps) ==
    IF c.disable_cache THEN FALSE
    ELSE IF c.fragments /= fragments THEN FALSE
    ELSE IF deps /= c.deps THEN FALSE
    ELSE TRUE

ValidityNoFragments(c, argv, fragments, deps) ==
    IF c.disable_cache THEN FALSE
    ELSE IF c.argv /= argv THEN FALSE
    ELSE IF deps /= c.deps THEN FALSE
    ELSE TRUE

ValidityNoFlag(c, argv, fragments, deps) ==
    IF c.argv /= argv THEN FALSE
    ELSE IF c.fragments /= fragments THEN FALSE
    ELSE IF deps /= c.deps THEN FALSE
    ELSE TRUE

Validity(c, argv, fragments, deps) ==
    IF c.disable_cache THEN FALSE
    ELSE IF c.argv /= argv THEN FALSE
    ELSE IF c.fragments /= fragments THEN FALSE
    ELSE IF deps /= c.deps THEN FALSE
    ELSE TRUE

Decide ==
    /\ pc = "scanned"
    /\ pc' = After(pc)
    /\ cur' = [cur EXCEPT !.phases = Append(@, "decide")]
    /\ saveddeps' = self.deps
    /\ LET fresh == resolvedeps(depAll(EmptyDeps, DOMAIN cache.deps), disk)
       IN  /\ self' = [self EXCEPT !.deps = fresh]
           /\ cached' = Validity(cache, self.argv, self.fragments, fresh)
           /\ snap' = [disk |-> disk, deps |-> fresh]
    /\ UNCHANGED <<sys, globals, text, cache, rets>>
    /\ UNCHANGED <<nrun, nenv, outcome, scanned, trace, kept, last, prev, walk, ext>>

(***************************************************************************)
(* compile, lines 575-579: the cache hit adopts every field of the record. *)
(***************************************************************************)
Restore ==
    /\ pc = "decided"
    /\ cached
    /\ pc' = After(pc)
    /\ self' = WithField(Update(self, cache), "subcount", -1)
    /\ cur' = [cur EXCEPT !.phases = Append(@, "restore")]
    /\ UNCHANGED <<sys, globals, text, cache, saveddeps, cached, rets>>
    /\ UNCHANGED <<nrun, nenv, outcome, scanned, trace, snap, kept, last, prev, walk, ext>>

(***************************************************************************)
(* compile, lines 589-592: the cache miss goes back to the live table.     *)
(***************************************************************************)
Invalidate ==
    /\ pc = "decided"
    /\ ~cached
    /\ pc' = After(pc)
    /\ self' = WithField([self EXCEPT !.deps = saveddeps], "outputs", <<>>)
    /\ cur' = [cur EXCEPT !.phases = Append(@, "recompute")]
    /\ UNCHANGED <<sys, globals, text, cache, saveddeps, cached, rets>>
    /\ UNCHANGED <<nrun, nenv, outcome, scanned, trace, snap, kept, last, prev, walk, ext>>

(***************************************************************************)
(* The second process (line 588 or 602), one handler call at a time.  A    *)
(* handler that returns None has the match replaced by nothing.            *)
(***************************************************************************)
NextCall == Calls(text)[Len(rets) + 1]

\* Variant: the counter advances on the fragments whose output is substituted.
subcountPlainOnly(c, subcount) == IF c.o = <<>> THEN subcount + 1 ELSE subcount

\* line 582: self.subcount += 1, the first statement of subber
subcountAfter(c, subcount) == subcount + 1

\* subber (lines 581-586) on call c, with self.subcount already advanced.
subber(c, outputs, subcount) ==
    IF c.o = <<>> THEN outputs[subcount + 1]
    ELSE IF c.o = <<"verbatim">> THEN c.body
    ELSE <<>>

Subber ==
    /\ pc = "subst"
    /\ cached
    /\ Len(rets) < Len(Calls(text))
    /\ LET c  == NextCall
           sc == subcountAfter(c, self.subcount)
       IN  IF c.o = <<>> /\ sc + 1 > Len(self.outputs)
           THEN /\ pc' = "idle"
                /\ outcome' = "IndexError"
                /\ self' = [self EXCEPT !.subcount = sc, !.lc = @ + LineCount(c.body)]
                /\ UNCHANGED <<rets, trace>>
           ELSE /\ self' = [self EXCEPT !.subcount = sc, !.lc = @ + LineCount(c.body)]
                /\ rets' = Append(rets, subber(c, self.outputs, sc))
                /\ trace' = Append(trace, [body |-> c.body, k |-> c.k, o |-> c.o,
                                           ret |-> subber(c, self.outputs, sc),
                                           ran |-> FALSE])
                /\ UNCHANGED <<pc, outcome>>
    /\ UNCHANGED <<sys, globals, text, cache, saveddeps, cached>>
    /\ UNCHANGED <<nrun, nenv, cur, scanned, snap, kept, last, prev, walk, ext>>

\* Variant: the option is not looked at.
appenderAnyOption(c, output) == output

\* appender (lines 594-600) on call c, given the output the run produced.
appender(c, output) ==
    IF c.o = <<>> THEN output
    ELSE IF c.o = <<"verbatim">> THEN c.body
    ELSE <<>>

\* Variant: an exception raised by a fragment is swallowed.
RaisesNever(st) == FALSE

\* the fragment raised: the exception leaves run, appender, re.sub, process,
\* compile and the constructor, none of which catches it.
Raises(st) == st.raised

Appender ==
    /\ pc = "subst"
    /\ ~cached
    /\ Len(rets) < Len(Calls(text))
    /\ LET c  == NextCall
           st == run(c.body, self.deps, self.disable_cache, globals, nrun)
       IN  /\ globals' = st.globals
           /\ IF Raises(st)
              THEN /\ self' = [self EXCEPT !.deps = st.deps,
                                           !.disable_cache = st.disable_cache,
                                           !.lc = @ + LineCount(c.body)]
                   /\ pc' = "idle"
                   /\ outcome' = "Exception"
                   /\ trace' = Append(trace, [body |-> c.body, k |-> c.k, o |-> c.o,
                                              ret |-> <<>>, ran |-> TRUE])
                   /\ UNCHANGED rets
              ELSE /\ self' = [self EXCEPT !.deps = st.deps,
                                           !.disable_cache = st.disable_cache,
                                           !.outputs = Append(@, st.accum),
                                           !.lc = @ + LineCount(c.body)]
                   /\ rets' = Append(rets, appender(c, st.accum))
                   /\ trace' = Append(trace, [body |-> c.body, k |-> c.k, o |-> c.o,
                                              ret |-> appender(c, st.accum), ran |-> TRUE])
                   /\ UNCHANGED <<pc, outcome>>
    /\ UNCHANGED <<sys, text, cache, saveddeps, cached>>
    /\ UNCHANGED <<nrun, nenv, cur, scanned, snap, kept, last, prev, walk, ext>>

(***************************************************************************)
(* compile, lines 588/602-607: process returns, self.compiled is set and   *)
(* written to a.pyptex.                                                    *)
(***************************************************************************)
Write ==
    /\ pc = "subst"
    /\ Len(rets) = Len(Calls(text))
    /\ pc' = After(pc)
    /\ self' = WithField(self, "compiled", process(text, rets))
    /\ pyptexfile' = [state |-> "ok", text |-> process(text, rets)]
    /\ cur' = [cur EXCEPT !.phases = Append(@, "write")]
    /\ UNCHANGED <<texfile, disk, cachefile>>
    /\ UNCHANGED <<globals, text, cache, saveddeps, cached, rets>>
    /\ UNCHANGED <<nrun, nenv, outcome, scanned, trace, snap, kept, last, prev, walk, ext>>

(***************************************************************************)
(* compile, lines 608-621: the live table is resolved; unless the compile  *)
(* was a cache hit, every field of self that is neither __dunder__ nor     *)
(* callable is pickled.                                                    *)
(***************************************************************************)
\* Variants: the test of line 610 inverted, and the flag tested instead.
PersistsOnHit(hit, disable_cache) == hit

PersistsUnlessDisabled(hit, disable_cache) == ~disable_cache

Persists(hit, disable_cache) == ~hit

Ran(tr) == {i \in 1..Len(tr) : tr[i].ran}

\* some fragment that ran holds pyp.disable_cache = True
NoCacheRan(tr) == \E i \in Ran(tr) : \E j \in 1..Len(tr[i].body) : tr[i].body[j] = "n"

Save ==
    /\ pc = "written"
    /\ pc' = After(pc)
    /\ LET me == [self EXCEPT !.deps = resolvedeps(self.deps, disk)]
       IN  /\ self' = me
           /\ IF Persists(cached, me.disable_cache)
              THEN /\ cachefile' = [state |-> "ok", rec |-> me]
                   /\ kept' = [n |-> cur.n, disk |-> disk, nocache |-> NoCacheRan(trace)]
                   /\ cur' = [cur EXCEPT !.persisted = TRUE,
                                         !.phases = @ \o <<"resolve", "persist">>]
              ELSE /\ cur' = [cur EXCEPT !.phases = @ \o <<"resolve", "skip">>]
                   /\ UNCHANGED <<cachefile, kept>>
    /\ UNCHANGED <<texfile, disk, pyptexfile>>
    /\ UNCHANGED <<globals, text, cache, saveddeps, cached, rets>>
    /\ UNCHANGED <<nrun, nenv, outcome, scanned, trace, snap, last, prev, walk, ext>>

(***************************************************************************)
(* compile, lines 622-625, and the return of the constructor (line 419).   *)
(***************************************************************************)
ExitCodes == {0, 1}


Summary ==
    [n |-> cur.n, argv |-> cur.argv, fragments |-> Bodies(scanned),
     found |-> cur.found, cached |-> cached, ran |-> Cardinality(Ran(trace)),
     out |-> pyptexfile.text, persisted |-> cur.persisted,
     nocache |-> NoCacheRan(trace), envStart |-> cur.envStart, envEnd |-> nenv]

Build ==
    /\ pc = "saved"
    /\ pc' = After(pc)
    /\ IF self.latexcommand /= ""
       THEN /\ \E code \in ExitCodes : self' = [self EXCEPT !.exitcode = code]
            /\ cur' = [cur EXCEPT !.built = TRUE, !.phases = Append(@, "build")]
       ELSE UNCHANGED <<self, cur>>
    /\ outcome' = "ok"
    /\ prev' = last
    /\ last' = Summary
    /\ UNCHANGED <<sys, globals, text, cache, saveddeps, cached, rets>>
    /\ UNCHANGED <<nrun, nenv, scanned, trace, snap, kept, walk, ext>>

Next ==
    \/ \E d \in Docs : EditDoc(d)
    \/ \E m \in {<<>>} \cup {<<t>> : t \in MTimes} : Touch(m)
    \/ \E how \in {"missing", "corrupt"} : LoseCache(how)
    \/ \E i \in Invocations : Construct(i.argv, i.latexcommand)
    \/ Load
    \/ Scan
    \/ Decide
    \/ Restore
    \/ Invalidate
    \/ Subber
    \/ Appender
    \/ Write
    \/ Save
    \/ Build

Spec == Init /\ [][Next]_vars


(***************************************************************************)
(* process on its own (lines 481-501): re.sub walks a text made of up to   *)
(* MaxPieces pieces, one match or one unmatched atom at a time, with a     *)
(* handler that returns a mark.  walk.comment is the end of the line of    *)
(* the last unescaped "%" the walk came to: the line's "\n", or the end of *)
(* the text when the line is the last one and has none.                    *)
(***************************************************************************)
Pieces ==
    {<<"%">>, <<"\n">>, <<"@">>, <<"\\">>, <<"a">>, <<"{">>, <<"}">>,
     <<"@", "{", "x", "}">>,
     <<"@", "[", "verbatim", "]", "{", "{", "{", "x", "}", "}", "}">>}

Texts == UNION {[1..n -> Pieces] : n \in 0..MaxPieces}

mark == <<"#">>

LineEnd(S, i) ==
    LET J == {j \in i..Len(S) : S[j] = "\n"}
    IN  IF J = {} THEN Len(S) ELSE Min(J)

CommentLine(S, i, sofar) ==
    IF At(S, i) = "%" /\ At(S, i - 1) /= "\\" /\ i > sofar THEN LineEnd(S, i) ELSE sofar

TokInit ==
    /\ Start(DocTwo)
    /\ \E ps \in Texts : walk = [NoWalk EXCEPT !.S = Flatten(ps)]
    /\ Apart

Advance ==
    /\ LET S == walk.S
           i == walk.pos
           m == MatchAt(S, i)
           e == IF m.kind = "none" THEN i ELSE m.end
           piece == IF m.kind = "fragment" THEN mark
                    ELSE IF m.kind = "escape" THEN <<"@">>
                    ELSE SubSeq(S, i, e)
           c == CommentLine(S, i, walk.comment)
       IN  /\ walk' = [S |-> S, pos |-> e + 1, out |-> walk.out \o piece,
                       steps |-> Append(walk.steps,
                                    [kind |-> IF m.kind = "none" THEN "literal" ELSE m.kind,
                                     start |-> i, end |-> e, piece |-> piece,
                                     body |-> m.body, o |-> m.o, k |-> m.k,
                                     incomment |-> i <= c]),
                       comment |-> c]
    /\ UNCHANGED <<sys, inst>>
    /\ UNCHANGED <<nrun, nenv, outcome, cur, scanned, trace, snap, kept, last, prev, ext>>

Found == IF walk.pos <= Len(walk.S) THEN MatchAt(walk.S, walk.pos).kind ELSE "end"

\* do_work on a match of group 1 (lines 487-488)
TokComment ==
    /\ Found = "comment"
    /\ Advance

\* do_work on a match of group 2 (lines 489-490)
TokEscape ==
    /\ Found = "escape"
    /\ Advance

\* do_work on a match of group 3 (lines 491-499)
TokFragment ==
    /\ Found = "fragment"
    /\ Advance

\* no match at this atom: re.sub copies it
TokLiteral ==
    /\ Found = "none"
    /\ Advance

TokNext == TokComment \/ TokEscape \/ TokFragment \/ TokLiteral

TokSpec == TokInit /\ [][TokNext]_vars

(***************************************************************************)
(* The dependency table on its own (lines 641-669): the calls a script or  *)
(* a fragment can make on pyp, pyp.dep(filename) and pyp.resolvedeps(), in *)
(* any order, up to MaxCalls of them, while the resources change on disk.  *)
(* tab.was is the table before the last call, tab.ret what dep returned.   *)
(***************************************************************************)
DepInit ==
    /\ Start(DocTwo)
    /\ walk = NoWalk
    /\ figs = NoFigs /\ stack = <<>> /\ shelf = NoShelf /\ Still
    /\ tab = [NoTab EXCEPT !.deps = dep(EmptyDeps, ModuleFile)]   \* line 417

\* pyp.dep(filename), lines 659-660
DepCall(filename) ==
    /\ tab.n < MaxCalls
    /\ tab' = [deps |-> dep(tab.deps, filename), was |-> tab.deps, op |-> "dep",
               id |-> filename, ret |-> filename, n |-> tab.n + 1]
    /\ UNCHANGED <<sys, inst, figs, stack, shelf, more>>
    /\ UNCHANGED <<nrun, nenv, outcome, cur, scanned, trace, snap, kept, last, prev, walk>>

\* pyp.resolvedeps(), lines 664-669
DepResolve ==
    /\ tab.n < MaxCalls
    /\ tab' = [deps |-> resolvedeps(tab.deps, disk), was |-> tab.deps, op |-> "resolve",
               id |-> "", ret |-> "", n |-> tab.n + 1]
    /\ UNCHANGED <<sys, inst, figs, stack, shelf, more>>
    /\ UNCHANGED <<nrun, nenv, outcome, cur, scanned, trace, snap, kept, last, prev, walk>>

\* a resource is written or deleted
DepTouch(k, m) ==
    /\ nenv < MaxEnv
    /\ m /= disk[k]
    /\ disk' = [disk EXCEPT ![k] = m]
    /\ nenv' = nenv + 1
    /\ UNCHANGED <<texfile, cachefile, pyptexfile, inst, ext>>
    /\ UNCHANGED <<nrun, outcome, cur, scanned, trace, snap, kept, last, prev, walk>>

DepNext ==
    \/ \E f \in Resources : DepCall(f)
    \/ DepResolve
    \/ \E k \in Resources, m \in {<<>>} \cup {<<t>> : t \in MTimes} : DepTouch(k, m)

DepSpec == DepInit /\ [][DepNext]_vars

(***************************************************************************)
(* Figures (lines 266-284, 440-470, 504-514, 594-596).  matplotlib keeps   *)
(* the open figures in Gcf; a figure object carries the attributes pyptex  *)
(* gives it: __FIGNAME__ / __IG__ (name: 0 when unset, else the gencount   *)
(* of its file) and drawn ("unset", "False", "True").  The state of one    *)
(* fragment execution is                                                   *)
(*   open, name, drawn   the figures;                                      *)
(*   gencount, deps      of the instance (deps: the figure files declared);*)
(*   autoshow            pyp.autoshow;                                     *)
(*   accum               self.__accum__, figure objects and strings;       *)
(*   shown               the figures showall printed in this execution;    *)
(*   skipped             the open figures that were drawn when the code of *)
(*                       the fragment was over.                            *)
(***************************************************************************)
Figures == {"f1", "f2"}
FigOrder == <<"f1", "f2">>

\* __setupfig__ (lines 266-276) on figure f
setupfig(st, f) ==
    LET named == IF st.name[f] = 0
                 THEN [st EXCEPT !.gencount = @ + 1, !.name[f] = st.gencount + 1,
                                 !.deps = @ \cup {st.gencount + 1}]
                 ELSE st
    IN  IF named.drawn[f] = "unset" THEN [named EXCEPT !.drawn[f] = "False"] ELSE named

\* Variant: showall prints every open figure, drawn or not.
RECURSIVE showallAlwaysFrom(_, _)
showallAlwaysFrom(st, i) ==
    IF i > Len(FigOrder) THEN st
    ELSE LET f == FigOrder[i]
             s1 == setupfig(st, f)
         IN  IF f \notin st.open THEN showallAlwaysFrom(st, i + 1)
             ELSE showallAlwaysFrom([s1 EXCEPT !.accum = Append(@, f),
                                               !.shown = @ \cup {f}], i + 1)

showallAlways(st) == showallAlwaysFrom(st, 1)

\* showall (lines 277-284): every figure of Gcf is set up; one that is not
\* drawn is printed (line 470: appended to the accumulator).
RECURSIVE showallFrom(_, _)
showallFrom(st, i) ==
    IF i > Len(FigOrder) THEN st
    ELSE LET f == FigOrder[i]
             s1 == setupfig(st, f)
         IN  IF f \notin st.open THEN showallFrom(st, i + 1)
             ELSE IF s1.drawn[f] = "True"
                  THEN showallFrom(s1, i + 1)
                  ELSE showallFrom([s1 EXCEPT !.accum = Append(@, f),
                                              !.shown = @ \cup {f}], i + 1)

showall(st) == showallFrom(st, 1)

\* mylatex (lines 504-517) on a figure: set up, marked drawn, its
\* includegraphics command returned.
mylatex(st, f) == [setupfig(st, f) EXCEPT !.drawn[f] = "True"]

IncludeGraphics(st, f) == <<"\\includegraphics", ToString(st.name[f])>>

\* line 596: ''.join(map(self.mylatex, result)), item by item; a string is
\* returned as it is.
RECURSIVE joined(_, _, _)
joined(st, i, out) ==
    IF i > Len(st.accum) THEN [st |-> st, out |-> out]
    ELSE IF st.accum[i] \in Figures
         THEN LET s1 == mylatex(st, st.accum[i])
              IN  joined(s1, i + 1, out \o IncludeGraphics(s1, st.accum[i]))
         ELSE joined(st, i + 1, Append(out, st.accum[i]))

\* what the code of a fragment does before run goes on (lines 449-458)
FigBodies ==
    {[do |-> d, f |-> f] : d \in {"new", "print", "expr", "pp", "close"}, f \in Figures}
    \cup {[do |-> d, f |-> ""] : d \in {"autoshow on", "autoshow off", "x"}}

FigBody(st, b) ==
    IF b.do = "new" THEN [st EXCEPT !.open = @ \cup {b.f}]                \* plt.figure()
    ELSE IF b.do = "print" THEN [st EXCEPT !.accum = Append(@, b.f)]      \* pyp.print(fig)
    ELSE IF b.do = "expr" THEN [st EXCEPT !.accum = Append(@, b.f)]       \* @{fig}, line 453
    ELSE IF b.do = "pp"                                                   \* pyp.pp('@fig')
         THEN LET s1 == mylatex(st, b.f)
              IN  [s1 EXCEPT !.accum = @ \o IncludeGraphics(s1, b.f)]
    ELSE IF b.do = "close" THEN [st EXCEPT !.open = @ \ {b.f}]            \* plt.close(fig)
    ELSE IF b.do = "autoshow on" THEN [st EXCEPT !.autoshow = TRUE]
    ELSE IF b.do = "autoshow off" THEN [st EXCEPT !.autoshow = FALSE]
    ELSE [st EXCEPT !.accum = Append(@, "X")]

\* run (lines 440-461), then the join of appender (line 596)
FigRun(st, b) ==
    LET s0 == [st EXCEPT !.accum = <<>>, !.shown = {}, !.skipped = {}]
        s1 == FigBody(s0, b)
        s2 == IF s1.autoshow THEN showall(s1) ELSE s1
        j  == joined(s2, 1, <<>>)
    IN  [j.st EXCEPT !.out = j.out,
                     !.skipped = {f \in s1.open : s1.drawn[f] = "True"},
                     !.auto = [f \in Figures |-> IF f \in s2.shown THEN @[f] + 1 ELSE @[f]],
                     !.born = @ \cup s1.open,
                     !.n = @ + 1]

FigInit ==
    /\ Start(DocTwo)
    /\ walk = NoWalk
    /\ tab = NoTab /\ stack = <<>> /\ shelf = NoShelf /\ Still
    /\ figs = [open |-> {}, name |-> [f \in Figures |-> 0],
               drawn |-> [f \in Figures |-> "unset"], gencount |-> 0, deps |-> {},
               autoshow |-> TRUE, accum |-> <<>>, shown |-> {}, skipped |-> {},
               out |-> <<>>, auto |-> [f \in Figures |-> 0], born |-> {}, n |-> 0]

\* a fragment runs; its code uses a figure that exists, or makes a new one
FigFragment(b) ==
    /\ figs.n < MaxFrags
    /\ b.do = "new" => b.f \notin figs.born
    /\ b.do \in {"print", "expr", "pp", "close"} => b.f \in figs.open
    /\ figs' = FigRun(figs, b)
    /\ UNCHANGED <<sys, inst, tab, stack, shelf, more>>
    /\ UNCHANGED <<nrun, nenv, outcome, cur, scanned, trace, snap, kept, last, prev, walk>>

FigNext == \E b \in FigBodies : FigFragment(b)

FigSpec == FigInit /\ [][FigNext]_vars

(***************************************************************************)
(* Composition (lines 671-700): a fragment of a.tex that is                *)
(* pyp.input('b.tex') constructs a pyptex instance for b.tex, with the     *)
(* argv of the caller and no build command, and gets the globals of that   *)
(* instance back.  The variables of the compile protocol are those of the  *)
(* constructor call that is executing; the calls that wait for it are on   *)
(* the stack, each with the files of its own document, and shelf holds the *)
(* files of the document that is not being compiled.                       *)
(***************************************************************************)
DocOuter == <<"@", "{", "x", "}", "@", "{", "i", "}", "@", "{", "u", "}">>
DocInner == <<"@", "{", "y", "}", "@", "{", "t", "}">>
DocInnerUses == <<"@", "{", "u", "}">>
DocInnerNew == <<"@", "{", "y", "}">>

IsInput(c) == c.body = <<"i">>

NestInit ==
    /\ Start(DocOuter)
    /\ walk = NoWalk /\ figs = NoFigs /\ tab = NoTab /\ Still
    /\ stack = <<>>
    /\ \E d \in {DocInner, DocInnerUses} : shelf = [NoShelf EXCEPT !.texfile = d]

\* the constructor call that is executing, as the caller leaves it
Frame ==
    [pc |-> pc, self |-> self, globals |-> globals, text |-> text, cache |-> cache,
     saveddeps |-> saveddeps, cached |-> cached, rets |-> rets,
     texfile |-> texfile, cachefile |-> cachefile, pyptexfile |-> pyptexfile,
     kept |-> kept, cur |-> cur, scanned |-> scanned, trace |-> trace, snap |-> snap,
     outcome |-> outcome]

Files == [texfile |-> texfile, cachefile |-> cachefile, pyptexfile |-> pyptexfile,
          kept |-> kept]

\* str(ret2), lines 191-192
InputCommand == <<"\\input", "b.pyptex">>

\* appender calls run (line 595), run evaluates pyp.input('b.tex') (line 452),
\* input calls pyptex('b.tex', argv or self.argv, False) (line 698), and the
\* constructor runs up to its call of compile (lines 393-417).
Input ==
    /\ pc = "subst"
    /\ ~cached
    /\ Len(rets) < Len(Calls(text))
    /\ IsInput(NextCall)
    /\ stack' = <<[Frame EXCEPT !.self.lc = @ + LineCount(NextCall.body)]>> \o stack
    /\ shelf' = Files
    /\ texfile' = shelf.texfile
    /\ cachefile' = shelf.cachefile
    /\ pyptexfile' = shelf.pyptexfile
    /\ kept' = shelf.kept
    /\ pc' = After("idle")
    /\ self' = Fresh(self.argv, "")
    /\ globals' = NewScope(globals)
    /\ text' = <<>>
    /\ cache' = EmptyCache
    /\ saveddeps' = EmptyDeps
    /\ cached' = FALSE
    /\ rets' = <<>>
    /\ outcome' = "running"
    /\ cur' = [n |-> nrun, argv |-> self.argv, envStart |-> nenv, found |-> "",
               persisted |-> FALSE, built |-> FALSE, command |-> "",
               phases |-> <<>>, out0 |-> shelf.pyptexfile, inner |-> <<>>,
               lacks |-> {}]
    /\ scanned' = <<>>
    /\ trace' = <<>>
    /\ snap' = NoSnap
    /\ UNCHANGED <<disk, nrun, nenv, last, prev, walk, figs, tab, more>>

\* Variant: input returns as soon as the output of b.tex is written.
FinishedAtWrite(p, o) == p = "written"

\* the constructor returns (line 419) when compile has returned
Finished(p, o) == p = "idle" /\ o = "ok"

\* the constructor of b.tex returns, input returns its globals (lines 699-700),
\* run returns them (lines 453, 461), appender appends their string and returns
\* it (lines 596-598)
Return ==
    /\ stack /= <<>>
    /\ Finished(pc, outcome)
    /\ LET fr == Head(stack)
           c  == Calls(fr.text)[Len(fr.rets) + 1]
       IN  /\ pc' = fr.pc
           /\ self' = [fr.self EXCEPT !.outputs = Append(@, InputCommand)]
           /\ globals' = fr.globals
           /\ text' = fr.text
           /\ cache' = fr.cache
           /\ saveddeps' = fr.saveddeps
           /\ cached' = fr.cached
           /\ rets' = Append(fr.rets, appender(c, InputCommand))
           /\ trace' = Append(fr.trace, [body |-> c.body, k |-> c.k, o |-> c.o,
                                         ret |-> appender(c, InputCommand), ran |-> TRUE])
           /\ texfile' = fr.texfile
           /\ cachefile' = fr.cachefile
           /\ pyptexfile' = fr.pyptexfile
           /\ kept' = fr.kept
           /\ cur' = [fr.cur EXCEPT !.inner =
                         Append(@, [pc |-> pc, phases |-> cur.phases, globals |-> globals,
                                    built |-> cur.built, out |-> pyptexfile,
                                    rec |-> cachefile.state, outer |-> fr.cur.phases])]
           /\ scanned' = fr.scanned
           /\ snap' = fr.snap
           /\ outcome' = fr.outcome
    /\ stack' = Tail(stack)
    /\ shelf' = Files
    /\ UNCHANGED <<disk, nrun, nenv, last, prev, walk, figs, tab, more>>

\* the constructor of b.tex raised: the exception leaves input, run, appender
\* and the compile of a.tex
Unwind ==
    /\ stack /= <<>>
    /\ pc = "idle"
    /\ outcome \in {"AssertionError", "IndexError", "Exception"}
    /\ LET fr == Head(stack)
           c  == Calls(fr.text)[Len(fr.rets) + 1]
       IN  /\ pc' = "idle"
           /\ self' = fr.self
           /\ globals' = fr.globals
           /\ text' = fr.text
           /\ cache' = fr.cache
           /\ saveddeps' = fr.saveddeps
           /\ cached' = fr.cached
           /\ rets' = fr.rets
           /\ trace' = Append(fr.trace, [body |-> c.body, k |-> c.k, o |-> c.o,
                                         ret |-> <<>>, ran |-> TRUE])
           /\ texfile' = fr.texfile
           /\ cachefile' = fr.cachefile
           /\ pyptexfile' = fr.pyptexfile
           /\ kept' = fr.kept
           /\ cur' = fr.cur
           /\ scanned' = fr.scanned
           /\ snap' = fr.snap
    /\ stack' = Tail(stack)
    /\ shelf' = Files
    /\ UNCHANGED <<disk, nrun, nenv, outcome, last, prev, walk, figs, tab, more>>

\* the user edits b.tex between two runs of pyptex a.tex
EditInner(d) ==
    /\ stack = <<>>
    /\ pc = "idle"
    /\ nenv < MaxEnv
    /\ d /= shelf.texfile
    /\ shelf' = [shelf EXCEPT !.texfile = d]
    /\ nenv' = nenv + 1
    /\ UNCHANGED <<sys, inst>>
    /\ UNCHANGED <<nrun, outcome, cur, scanned, trace, snap, kept, last, prev, walk>>
    /\ UNCHANGED <<figs, tab, stack, more>>

\* pyptexmain constructs the instance of a.tex
Main(argv, latexcommand) == stack = <<>> /\ Construct(argv, latexcommand)

\* appender on a fragment that is not an input
Plain ==
    /\ pc = "subst"
    /\ ~cached
    /\ Len(rets) < Len(Calls(text))
    /\ ~IsInput(NextCall)
    /\ Appender

NestNext ==
    \/ \E i \in Invocations : Main(i.argv, i.latexcommand)
    \/ LoseCache("missing")
    \/ \E d \in {DocInner, DocInnerNew} : EditInner(d)
    \/ Load
    \/ Scan
    \/ Decide
    \/ Restore
    \/ Invalidate
    \/ Subber
    \/ Plain
    \/ Input
    \/ Return
    \/ Unwind
    \/ Write
    \/ Save
    \/ Build

NestSpec == NestInit /\ [][NestNext]_vars

(***************************************************************************)
(* run on its own (lines 440-461), on the fragments of one cache-miss      *)
(* pass, up to MaxFrags of them.  The code of a fragment is what matters   *)
(* to run: whether it compiles in 'eval' mode (expr), the values it hands  *)
(* to pyp.print while it runs (prints), whether it then raises (raises);   *)
(* an expression that does not raise has the value "v".  The figures that  *)
(* showall adds (lines 454-455, 459-460) are those of FigSpec.             *)
(***************************************************************************)
Codes == [expr : BOOLEAN, prints : {<<>>, <<"p">>}, raises : BOOLEAN]

\* Variant: the accumulator is not emptied.
runCodeKeeping(accum, code) ==
    LET printed == accum \o code.prints
    IN  IF code.expr
        THEN [accum |-> IF code.raises THEN printed ELSE Append(printed, "v"),
              evals |-> 1, execs |-> 0, raised |-> code.raises]
        ELSE [accum |-> printed, evals |-> 0, execs |-> 1, raised |-> code.raises]

\* lines 446-461: self.__accum__ = []; the code is compiled in 'eval' mode,
\* and evaluated if that succeeds (the value is appended after what the
\* evaluation printed, line 453), else compiled in 'exec' mode and executed;
\* only the first compile is inside suppress(Exception).
runCode(accum, code) ==
    LET printed == <<>> \o code.prints
    IN  IF code.expr
        THEN [accum |-> IF code.raises THEN printed ELSE Append(printed, "v"),
              evals |-> 1, execs |-> 0, raised |-> code.raises]
        ELSE [accum |-> printed, evals |-> 0, execs |-> 1, raised |-> code.raises]

RunInit ==
    /\ Start(DocTwo)
    /\ walk = NoWalk /\ figs = NoFigs /\ tab = NoTab /\ stack = <<>> /\ shelf = NoShelf
    /\ race = NoRace
    /\ eng = [n |-> 0, accum |-> <<>>, outputs |-> <<>>,
              code |-> [expr |-> FALSE, prints |-> <<>>, raises |-> FALSE],
              evals |-> 0, execs |-> 0, raised |-> FALSE]

\* appender on one fragment (lines 595-596): run, then the output is appended
RunFragment(code) ==
    /\ eng.n < MaxFrags
    /\ ~eng.raised
    /\ LET r == runCode(eng.accum, code)
       IN  eng' = [n |-> eng.n + 1, accum |-> r.accum,
                   outputs |-> IF r.raised THEN eng.outputs ELSE Append(eng.outputs, r.accum),
                   code |-> code, evals |-> r.evals, execs |-> r.execs,
                   raised |-> r.raised]
    /\ UNCHANGED <<sys, inst, figs, tab, stack, shelf, race>>
    /\ UNCHANGED <<nrun, nenv, outcome, cur, scanned, trace, snap, kept, last, prev, walk>>

RunNext == \E code \in Codes : RunFragment(code)

RunSpec == RunInit /\ [][RunNext]_vars

(***************************************************************************)
(* Figures under composition.  Gcf and the attributes of a figure belong   *)
(* to the process; gendir, gencount, deps, autoshow and the accumulator    *)
(* belong to the instance (lines 286-290, 405-410).  A fragment of a.tex   *)
(* calls pyp.input('b.tex'), alone or after it has made a figure; b.tex is *)
(* one fragment that makes no figure, @{1}.  figs is the state of the      *)
(* instance of a.tex, with                                                 *)
(*   composed  the number of the last fragment that called input;          *)
(*   pending   the open figures not drawn when input was called;           *)
(*   inner     what the instance of b.tex did in that call: the figures it *)
(*             named, marked drawn and printed, its table, its output;     *)
(*   brec      b.pickle exists.                                            *)
(***************************************************************************)
NoInner == [named |-> {}, marked |-> {}, emitted |-> {}, deps |-> {}, out |-> <<>>,
            ran |-> FALSE]

CompBodies ==
    {[do |-> "input", f |-> ""]} \cup {[do |-> "new input", f |-> f] : f \in Figures}

\* the instance input constructs (line 698): lines 405-410 and generateddir
\* give it its own table, counter and autoshow; the figures are those of Gcf
Nested(st) ==
    [st EXCEPT !.gencount = 0, !.deps = {}, !.autoshow = TRUE, !.accum = <<>>,
               !.shown = {}, !.skipped = {}, !.out = <<>>]

\* compile of b.tex: on a miss its fragment runs (lines 595-596), on a hit
\* nothing runs (lines 581-588)
NestedRun(st, hit) == IF hit THEN Nested(st) ELSE FigRun(Nested(st), [do |-> "x", f |-> ""])

\* run (lines 440-461) on a fragment that calls pyp.input('b.tex'): the code
\* makes its figure, input compiles b.tex and returns (lines 698-700), the
\* value of an expression is appended (line 453), showall, and the join of
\* appender (line 596)
FigCompose(st, b, hit) ==
    LET s0 == [st EXCEPT !.accum = <<>>, !.shown = {}, !.skipped = {}]
        s1 == IF b.do = "new input" THEN FigBody(s0, [do |-> "new", f |-> b.f]) ELSE s0
        bv == NestedRun(s1, hit)
        s2 == [s1 EXCEPT !.name = bv.name, !.drawn = bv.drawn,
                         !.accum = IF b.do = "input" THEN Append(@, "\\input") ELSE @]
        s3 == IF s2.autoshow THEN showall(s2) ELSE s2
        j  == joined(s3, 1, <<>>)
    IN  [j.st EXCEPT !.out = j.out,
                     !.skipped = {f \in s2.open : s2.drawn[f] = "True"},
                     !.auto = [f \in Figures |-> IF f \in s3.shown THEN @[f] + 1 ELSE @[f]],
                     !.born = @ \cup s1.open,
                     !.n = @ + 1,
                     !.pending = {f \in s1.open : s1.drawn[f] /= "True"},
                     !.composed = st.n + 1,
                     !.inner = [named |-> {f \in Figures : s1.name[f] = 0 /\ bv.name[f] /= 0},
                                marked |-> {f \in Figures : s1.drawn[f] /= "True"
                                                             /\ bv.drawn[f] = "True"},
                                emitted |-> bv.shown, deps |-> bv.deps, out |-> bv.out,
                                ran |-> ~hit],
                     !.brec = TRUE]

CompInit ==
    /\ Start(DocTwo)
    /\ walk = NoWalk
    /\ tab = NoTab /\ stack = <<>> /\ shelf = NoShelf /\ Still
    /\ figs = [open |-> {}, name |-> [f \in Figures |-> 0],
               drawn |-> [f \in Figures |-> "unset"], gencount |-> 0, deps |-> {},
               autoshow |-> TRUE, accum |-> <<>>, shown |-> {}, skipped |-> {},
               out |-> <<>>, auto |-> [f \in Figures |-> 0], born |-> {}, n |-> 0,
               pending |-> {}, composed |-> 0, inner |-> NoInner, brec |-> FALSE]

\* a fragment of a.tex that composes b.tex runs
FigInput(b, hit) ==
    /\ figs.n < MaxFrags
    /\ b.do = "new input" => b.f \notin figs.born
    /\ hit => figs.brec
    /\ figs' = FigCompose(figs, b, hit)
    /\ UNCHANGED <<sys, inst, tab, stack, shelf, more>>
    /\ UNCHANGED <<nrun, nenv, outcome, cur, scanned, trace, snap, kept, last, prev, walk>>

\* a fragment of a.tex that composes nothing runs: pending and inner keep
\* what the last composition left
CompNext ==
    \/ \E b \in FigBodies : FigFragment(b)
    \/ \E b \in CompBodies, hit \in BOOLEAN : FigInput(b, hit)

CompSpec == CompInit /\ [][CompNext]_vars

(***************************************************************************)
(* The record in a.pickle.  compile unpickles whatever the file holds and  *)
(* gives a default to each of five keys the record lacks (lines 523-537):  *)
(* a record written by something other than lines 611-619 of this version  *)
(* may lack any of them.  Between two runs, the file is replaced by a      *)
(* record without the keys F.  The documents have a verbatim fragment      *)
(* before a plain one, and after it.                                       *)
(***************************************************************************)
DocMixed == <<"@", "[", "verbatim", "]", "{", "x", "}", "@", "{", "t", "}">>
RecDocs == {DocMixed, DocTwo}

Fields == DOMAIN defaults

Without(r, F) == [x \in DOMAIN r \ F |-> r[x]]

RecInit == \E d \in RecDocs : Start(d) /\ walk = NoWalk /\ Apart

Tamper(F) ==
    /\ Outside
    /\ pc = "idle"
    /\ cachefile.state = "ok"
    /\ F /= {} /\ F \subseteq DOMAIN cachefile.rec
    /\ cachefile' = [cachefile EXCEPT !.rec = Without(@, F)]
    /\ nenv' = nenv + 1
    /\ UNCHANGED <<texfile, disk, pyptexfile, inst>>
    /\ UNCHANGED <<nrun, outcome, cur, scanned, trace, snap, kept, last, prev, walk, ext>>

RecNext ==
    \/ \E F \in SUBSET Fields : Tamper(F)
    \/ \E i \in Invocations : Construct(i.argv, i.latexcommand)
    \/ Load
    \/ Scan
    \/ Decide
    \/ Restore
    \/ Invalidate
    \/ Subber
    \/ Appender
    \/ Write
    \/ Save
    \/ Build

RecSpec == RecInit /\ [][RecNext]_vars

(***************************************************************************)
(* A dependency written while compile runs.  The fragment of DocDep        *)
(* declares R (pyp.dep, or pyp.open, which declares R and opens it, lines  *)
(* 706-707); the table gets the time of R only when resolvedeps runs,      *)
(* after the output is written (line 608).  Another process writes R once  *)
(* the fragments of a cache-miss pass have run and before that line.  race *)
(* remembers the run in which this happened (at), the R the fragments saw  *)
(* (was) and the R that was written (now).                                 *)
(***************************************************************************)
RaceInit ==
    /\ Start(DocDep)
    /\ walk = NoWalk /\ figs = NoFigs /\ tab = NoTab /\ stack = <<>> /\ shelf = NoShelf
    /\ eng = NoEng
    /\ race = NoRace

Overwrite(m) ==
    /\ nenv < MaxEnv
    /\ pc = "subst"
    /\ ~cached
    /\ Len(rets) = Len(Calls(text))
    /\ "R" \in DOMAIN self.deps
    /\ race.at /= nrun
    /\ m /= disk["R"]
    /\ disk' = [disk EXCEPT !["R"] = m]
    /\ race' = [at |-> nrun, was |-> disk["R"], now |-> m]
    /\ nenv' = nenv + 1
    /\ UNCHANGED <<texfile, cachefile, pyptexfile, inst>>
    /\ UNCHANGED <<nrun, outcome, cur, scanned, trace, snap, kept, last, prev, walk>>
    /\ UNCHANGED <<figs, tab, stack, shelf, eng>>

RaceNext ==
    \/ \E m \in {<<>>} \cup {<<t>> : t \in MTimes} : Overwrite(m)
    \/ \E i \in Invocations : Construct(i.argv, i.latexcommand)
    \/ Load
    \/ Scan
    \/ Decide
    \/ Restore
    \/ Invalidate
    \/ Subber
    \/ Appender
    \/ Write
    \/ Save
    \/ Build

RaceSpec == RaceInit /\ [][RaceNext]_vars

(***************************************************************************)
(* Properties.                                                             *)
(***************************************************************************)
Compiling == pc \in {"decided", "subst", "written", "saved"}
Substituted == pc \in {"written", "saved"}
Returned == pc = "idle" /\ outcome = "ok"
TwoRuns == Returned /\ prev.n > 0 /\ last.n = prev.n + 1

\* The four conditions of the decision, read off the record that was loaded,
\* the arguments of this run, the text of the document and the disk.
ArgvSame == cache.argv = cur.argv
FragmentsSame == cache.fragments = Bodies(Calls(text))
DepsFresh ==
    /\ DOMAIN snap.deps = DOMAIN cache.deps
    /\ \A k \in DOMAIN cache.deps : Stamp(snap.disk, k) = cache.deps[k]

\* C1: a compile takes the cache-hit path (no fragment runs) if and only if the
\* loaded record has disable_cache false, its argv is this run's argv, its
\* fragments are the fragment texts scanned from the document, and the tokens
\* resolved afresh for exactly its dependency keys equal its deps; in every
\* other case all fragments run.
C1_ValidityDecision ==
    Compiling =>
        /\ cached <=> (~cache.disable_cache /\ ArgvSame /\ FragmentsSame /\ DepsFresh)
        /\ \A i \in 1..Len(trace) : trace[i].ran <=> ~cached
        /\ Substituted => Len(trace) = Len(Calls(text))

C1_Witness ==
    /\ pc = "written"
    /\ cached
    /\ Len(trace) >= 1
    /\ "R" \in DOMAIN cache.deps

\* C2 as stated: two compiles in a row of any document, from no cache record,
\* with the document, argv, the dependencies and a.pickle untouched in between:
\* the first runs every fragment once, the second runs none, is a cache hit and
\* writes the same output.
Untouched == last.argv = prev.argv /\ last.envEnd = prev.envStart
FirstRunsAll == prev.ran = Len(prev.fragments) /\ ~prev.cached
SecondRunsNone == last.ran = 0 /\ last.cached /\ last.out = prev.out

C2_AnyDocument ==
    (TwoRuns /\ prev.found = "missing" /\ Untouched) => (FirstRunsAll /\ SecondRunsNone)

\* C2, amended: the same, for a document none of whose fragments sets
\* pyp.disable_cache.
C2_IdempotentHit ==
    (TwoRuns /\ prev.found = "missing" /\ Untouched /\ ~prev.nocache)
        => (FirstRunsAll /\ SecondRunsNone)

C2_Witness ==
    /\ TwoRuns /\ prev.found = "missing" /\ Untouched /\ ~prev.nocache
    /\ prev.ran = 2
    /\ last.cached
    /\ \E i \in 1..Len(last.out) : last.out[i] = "T"

\* C3: when the fragment texts of a document differ from those of the compile
\* before (one altered, added or removed), the compile is a cache miss and runs
\* every fragment of the document.
C3_FragmentChange ==
    (Returned /\ prev.n > 0 /\ last.fragments /= prev.fragments)
        => (~last.cached /\ last.ran = Len(last.fragments))

C3_Witness ==
    /\ TwoRuns
    /\ last.fragments /= prev.fragments
    /\ last.argv = prev.argv
    /\ ~prev.nocache
    /\ last.found = "ok"
    /\ \E i \in 1..Len(last.fragments) : last.fragments[i] \in Range(prev.fragments)
    /\ last.ran = 2

\* C4 as stated: if a dependency of the loaded record has another modification
\* time (or has gone) since the compile that wrote the record resolved it, the
\* compile is a cache miss.
C4_DependencyChange ==
    (Compiling /\ cur.found = "ok"
        /\ \E k \in DOMAIN cache.deps : snap.disk[k] /= kept.disk[k]) => ~cached

\* C5: a verbatim fragment is replaced by exactly its own source text on both
\* paths; on a cache miss it has run all the same, and what it bound is in the
\* globals of the document; the text written is the document with every plain
\* fragment replaced by its output and every verbatim one by its source.
IsVerbatim(c) == c.o = <<"verbatim">>
Expected == [i \in 1..Len(Calls(text)) |->
                IF IsVerbatim(Calls(text)[i]) THEN Calls(text)[i].body
                ELSE self.outputs[i]]

C5_VerbatimFidelity ==
    Compiling =>
        /\ \A i \in 1..Len(trace) : IsVerbatim(trace[i]) =>
              /\ trace[i].ret = trace[i].body
              /\ ~cached => trace[i].ran
              /\ (~cached /\ "x" \in Range(trace[i].body)) => "x" \in globals
        /\ Substituted => pyptexfile.text = process(text, Expected)

C5_Witness ==
    /\ pc = "written"
    /\ ~cached
    /\ \E i \in 1..Len(trace) :
          /\ IsVerbatim(trace[i])
          /\ trace[i].ran
          /\ trace[i].ret = <<"x">>
          /\ self.outputs[i] = <<"X">>
          /\ "x" \in globals

\* C7: within one compile the second pass calls its handler on the same
\* fragments, bodies, line numbers and options, in the same order, as the scan;
\* its k-th call receives fragments[k].
SameCall(a, b) == a.body = b.body /\ a.k = b.k /\ a.o = b.o

C7_CrossPass ==
    Compiling =>
        /\ Len(trace) <= Len(scanned)
        /\ Len(scanned) = Len(self.fragments)
        /\ \A i \in 1..Len(trace) :
              SameCall(trace[i], scanned[i]) /\ trace[i].body = self.fragments[i]
        /\ Substituted => Len(trace) = Len(scanned)

C7_Witness ==
    /\ pc = "written"
    /\ cached
    /\ Len(trace) = 2
    /\ trace[1].o /= trace[2].o
    /\ trace[2].k = 1

\* C8: after a compile in which a fragment set disable_cache, the next compile
\* is a cache miss and runs every fragment, whatever else stayed the same; and
\* no cache hit ever uses a record written by such a compile.
C8_DisableCache ==
    /\ (Returned /\ prev.n > 0 /\ prev.nocache)
          => (~last.cached /\ last.ran = Len(last.fragments))
    /\ (Compiling /\ cached) => (cur.found = "ok" /\ ~kept.nocache)

C8_Witness ==
    /\ TwoRuns /\ Untouched
    /\ prev.nocache
    /\ last.fragments = prev.fragments
    /\ last.ran = 2

\* C9 as stated: at the end of a compile a record is persisted if and only if
\* disable_cache is false at that point.
C9_PersistUnlessDisabled == pc = "saved" => (cur.persisted <=> ~self.disable_cache)

\* C9, amended: a record is persisted if and only if the compile was a cache
\* miss, whatever disable_cache is (the record then carries the flag); on a
\* cache hit nothing is persisted.
C9_PersistOnMiss ==
    pc = "saved" =>
        /\ cur.persisted <=> ~cached
        /\ cur.persisted => (cachefile.state = "ok" /\ cachefile.rec = self /\ kept.n = cur.n)
        /\ ~cur.persisted => kept.n < cur.n

C9_Witness ==
    /\ pc = "saved"
    /\ cur.persisted
    /\ self.disable_cache
    /\ cachefile.rec.disable_cache

\* C10: when a.pickle is missing or cannot be loaded, the record used is the
\* all-defaults one, the compile is a cache miss and goes on as any other; the
\* failure to load is not an outcome of the constructor.
C10_LoadFailure ==
    (cur.n > 0 /\ cur.found \in {"missing", "corrupt"}) =>
        /\ cache.fragments = <<>> /\ cache.outputs = <<>> /\ cache.deps = EmptyDeps
        /\ cache.argv = <<>> /\ cache.disable_cache
        /\ DOMAIN cache = {"fragments", "outputs", "deps", "argv", "disable_cache"}
        /\ ~cached
        /\ outcome \in {"running", "ok", "AssertionError", "Exception"}
        /\ \A i \in 1..Len(trace) : trace[i].ran

C10_Witness ==
    /\ Returned
    /\ last.n = cur.n
    /\ cur.found = "corrupt"
    /\ last.ran = 2


\* The walk agrees with Tokens, Calls and process, which the compile uses.
TokAgrees ==
    walk.pos > Len(walk.S) =>
        /\ Len(walk.steps) = Len(Tokens(walk.S))
        /\ \A i \in 1..Len(walk.steps) :
              /\ walk.steps[i].kind = Tokens(walk.S)[i].kind
              /\ walk.steps[i].start = Tokens(walk.S)[i].start
              /\ walk.steps[i].end = Tokens(walk.S)[i].end
              /\ walk.steps[i].body = Tokens(walk.S)[i].body
        /\ walk.out = process(walk.S, [i \in 1..Len(Calls(walk.S)) |-> mark])

\* C6 as stated: an "@@" of the input becomes one "@" and starts no fragment;
\* a comment line, from an unescaped "%" to the end of its line, is copied
\* unchanged, and the handler is not called for a fragment marker inside it.
EscapeCollapses(S, st) ==
    (At(S, st.start) = "@" /\ At(S, st.start + 1) = "@")
        => (st.kind = "escape" /\ st.piece = <<"@">> /\ st.end = st.start + 1)

CommentCopied(S, st) ==
    st.kind \in {"comment", "literal"} /\ st.piece = SubSeq(S, st.start, st.end)

C6_EscapeFidelity ==
    \A i \in 1..Len(walk.steps) :
        IF walk.steps[i].incomment
        THEN CommentCopied(walk.S, walk.steps[i])
        ELSE EscapeCollapses(walk.S, walk.steps[i])

\* C6 where the code agrees: the same for every comment line that ends with a
\* newline; the last line of a text that has no final newline is not covered.
C6_TerminatedComments ==
    \A i \in 1..Len(walk.steps) :
        IF walk.steps[i].incomment /\ At(walk.S, LineEnd(walk.S, walk.steps[i].start)) = "\n"
        THEN CommentCopied(walk.S, walk.steps[i])
        ELSE EscapeCollapses(walk.S, walk.steps[i])

\* C13 as stated: a compile that returns has run the build command exactly when
\* one was passed to this constructor call, on the cache-hit path as on the
\* cache-miss path, whatever the record of an earlier compile holds.
C13_BuildCommand ==
    (Returned /\ last.n = cur.n) => (cur.built <=> cur.command /= "")

\* C14: when a fragment of the document carries an option other than none or
\* verbatim, the constructor ends with the scanner's AssertionError before
\* any fragment runs; a.pyptex and a.pickle are left as they were and no build
\* command runs.
OtherOption(S) ==
    \E i \in 1..Len(Calls(S)) : Calls(S)[i].o \notin {<<>>, <<"verbatim">>}

C14_InvalidOption ==
    (cur.n > 0 /\ pc /= "loaded" /\ OtherOption(text)) =>
        /\ pc = "idle" /\ outcome = "AssertionError"
        /\ trace = <<>>
        /\ cur.phases = <<"load", "scan">>
        /\ pyptexfile = cur.out0
        /\ ~cur.persisted /\ kept.n < cur.n
        /\ ~cur.built

C14_Witness ==
    /\ pc = "idle" /\ outcome = "AssertionError"
    /\ OtherOption(text)
    /\ Len(scanned) = 2
    /\ cachefile.state = "ok"
    /\ pyptexfile.state = "ok"

\* C15: when a fragment raises on the cache-miss path, the constructor ends
\* with the exception: the fragments after it do not run, a.pyptex is not
\* written, a.pickle is not written (the record of an earlier compile stays)
\* and no build command runs.
RaisedIn(tr) == {i \in 1..Len(tr) : tr[i].ran /\ "r" \in Range(tr[i].body)}

C15_ExecutionError ==
    (cur.n > 0 /\ RaisedIn(trace) /= {}) =>
        /\ pc = "idle" /\ outcome = "Exception"
        /\ RaisedIn(trace) = {Len(trace)}
        /\ Len(rets) = Len(trace) - 1
        /\ "write" \notin Range(cur.phases)
        /\ pyptexfile = cur.out0
        /\ ~cur.persisted /\ kept.n < cur.n
        /\ ~cur.built

C15_Witness ==
    /\ pc = "idle" /\ outcome = "Exception"
    /\ Len(trace) = 2 /\ Len(Calls(text)) = 3
    /\ "R" \in DOMAIN self.deps
    /\ "x" \in globals
    /\ cachefile.state = "ok" /\ kept.n = cur.n - 1
    /\ pyptexfile.state = "ok"

\* C18 as stated: resolvedeps gives the empty token to every dependency that
\* cannot be stat'ed, and a compile is a cache miss whenever a dependency key
\* of the loaded record cannot be stat'ed at the decision, whatever token the
\* record holds for it.
EmptyWhenMissing ==
    /\ \A k \in DOMAIN snap.deps : snap.disk[k] = <<>> => snap.deps[k] = <<>>
    /\ pc = "saved" => \A k \in DOMAIN self.deps : disk[k] = <<>> => self.deps[k] = <<>>

C18_MissingForcesMiss ==
    /\ EmptyWhenMissing
    /\ (Compiling /\ \E k \in DOMAIN cache.deps : snap.disk[k] = <<>>) => ~cached

\* C18, amended: resolvedeps gives the empty token to every dependency that
\* cannot be stat'ed; a compile is a cache miss whenever a key of the loaded
\* record cannot be stat'ed and the record holds a non-empty token for it.  A
\* key the record holds with the empty token and that still cannot be
\* stat'ed is as fresh as any other: on a cache hit the keys that cannot be
\* stat'ed are exactly those the record holds with the empty token.
C18_MissingSinceRecord ==
    /\ EmptyWhenMissing
    /\ (Compiling /\ \E k \in DOMAIN cache.deps : snap.disk[k] = <<>> /\ cache.deps[k] /= <<>>)
          => ~cached
    /\ (Compiling /\ cached)
          => \A k \in DOMAIN cache.deps : snap.disk[k] = <<>> <=> cache.deps[k] = <<>>

C18_Witness ==
    /\ Compiling /\ ~cached
    /\ ~cache.disable_cache /\ ArgvSame /\ FragmentsSame
    /\ snap.disk["R"] = <<>>
    /\ "R" \in DOMAIN cache.deps /\ cache.deps["R"] /= <<>>
    /\ snap.deps["R"] = <<>>

\* C19: the steps of a compile come in the order load, scan, decision,
\* restore or recompute, write, resolve, persist or skip, build (if any), each
\* at most once; a compile that has written its output and is over has done
\* all of them, the write before the persist and the build after both.
LegalOrders ==
    {<<"load", "scan", "decide", sub, "write", "resolve", ps>> \o b :
        sub \in {"restore", "recompute"}, ps \in {"persist", "skip"},
        b \in {<<>>, <<"build">>}}

IsPrefix(a, b) == Len(a) <= Len(b) /\ a = SubSeq(b, 1, Len(a))

C19_PhaseOrder ==
    cur.n > 0 =>
        /\ \E s \in LegalOrders : IsPrefix(cur.phases, s)
        /\ (pc = "idle" /\ "write" \in Range(cur.phases)) =>
              /\ cur.phases \in LegalOrders
              /\ outcome = "ok"
              /\ cur.built <=> cur.phases[Len(cur.phases)] = "build"
              /\ cur.persisted <=> "persist" \in Range(cur.phases)
        /\ pyptexfile /= cur.out0 => "write" \in Range(cur.phases)

C19_Witness ==
    /\ Returned /\ last.n = cur.n
    /\ cur.phases = <<"load", "scan", "decide", "restore", "write", "resolve", "skip", "build">>
    /\ pyptexfile.state = "ok"

\* C20: the decision resolves exactly the keys of the loaded record; the
\* record a cache miss persists holds exactly the keys declared in this run,
\* by the constructor and by the fragments that ran, each with the token of
\* the resource as it is after the output was written; a key of the loaded
\* record that this run did not declare is not in it.
Declared(tr) ==
    {ModuleFile} \cup
    {"R" : i \in {j \in 1..Len(tr) : tr[j].ran /\ "d" \in Range(tr[j].body)}}

C20_LiveTable ==
    /\ Compiling => DOMAIN snap.deps = DOMAIN cache.deps
    /\ (pc = "saved" /\ ~cached) =>
          /\ cachefile.state = "ok"
          /\ DOMAIN cachefile.rec.deps = Declared(trace)
          /\ \A k \in DOMAIN cachefile.rec.deps :
                cachefile.rec.deps[k] = Stamp(kept.disk, k) /\ kept.disk = disk
    /\ (pc \in {"loaded", "scanned", "decided"} /\ cur.found = "ok") =>
          /\ cachefile.state = "ok"
          /\ DOMAIN cache.deps = DOMAIN cachefile.rec.deps

C20_Witness ==
    /\ pc = "saved" /\ ~cached
    /\ "R" \in DOMAIN cache.deps
    /\ "R" \notin DOMAIN cachefile.rec.deps
    /\ Len(trace) = 2

\* C17 as stated: dep(id) adds id with the empty token when id is not in the
\* table and leaves the table as it is when id is in it, whatever its token;
\* dep returns id.
C17_InsertIfAbsent ==
    tab.op = "dep" =>
        /\ tab.ret = tab.id
        /\ tab.id \in DOMAIN tab.was => tab.deps = tab.was
        /\ tab.id \notin DOMAIN tab.was =>
              /\ DOMAIN tab.deps = DOMAIN tab.was \cup {tab.id}
              /\ tab.deps[tab.id] = <<>>
              /\ \A k \in DOMAIN tab.was : tab.deps[k] = tab.was[k]

\* C17, amended: dep(id) sets the token of id to the empty token, whether id
\* is in the table or not, and touches no other key: it changes nothing when
\* id is there with the empty token, and a second dep(id) changes nothing;
\* the token resolve filled for id is emptied.  dep returns id.
C17_EmptiesToken ==
    tab.op = "dep" =>
        /\ tab.ret = tab.id
        /\ DOMAIN tab.deps = DOMAIN tab.was \cup {tab.id}
        /\ tab.deps[tab.id] = <<>>
        /\ \A k \in DOMAIN tab.was \ {tab.id} : tab.deps[k] = tab.was[k]
        /\ (tab.id \in DOMAIN tab.was /\ tab.was[tab.id] = <<>>) => tab.deps = tab.was
        /\ dep(tab.deps, tab.id) = tab.deps

C17_Witness ==
    /\ tab.op = "dep"
    /\ tab.id = "R"
    /\ tab.id \in DOMAIN tab.was
    /\ tab.was[tab.id] /= <<>>
    /\ tab.deps[tab.id] = <<>>
    /\ ModuleFile \in DOMAIN tab.deps

\* C16: over the fragments of a compile, showall appends a figure to the
\* accumulator at most once in the life of the figure: a figure it finds
\* marked drawn, because it was shown or rendered by hand before, is not
\* appended, and one it appends is marked drawn by the join of that fragment.
C16_AutoDisplayOnce ==
    figs.n > 0 =>
        /\ \A f \in Figures : figs.auto[f] <= 1
        /\ figs.shown \cap figs.skipped = {}
        /\ \A f \in figs.shown : figs.drawn[f] = "True"
        /\ figs.autoshow => figs.shown = figs.open \ figs.skipped
        /\ ~figs.autoshow => figs.shown = {}
        /\ \A f \in Figures : figs.auto[f] = 1 => figs.drawn[f] = "True"

C16_Witness ==
    /\ figs.n >= 3
    /\ figs.auto["f1"] = 1
    /\ "f1" \in figs.skipped
    /\ "f2" \in figs.shown
    /\ figs.autoshow

\* C11: the names the fragments of a document bind stay bound for its later
\* fragments (a.tex binds x in its first fragment and prints it in its third);
\* the fragments of b.tex, compiled by pyp.input from a.tex, start from globals
\* that hold pyp alone and never see x; what they bind (y) is not in the globals
\* of a.tex, which are after the input what they were before it.
C11_ScopeIsolation ==
    /\ stack /= <<>> =>
          /\ (globals \cap Head(stack).globals) \subseteq {"pyp"}
          /\ "x" \notin globals
          /\ pc = "compile" => globals = {"pyp"}
    /\ stack = <<>> => "y" \notin globals
    /\ (stack = <<>> /\ pc \in {"subst", "written", "saved"} /\ ~cached) =>
          /\ \A i \in 1..Len(trace) : trace[i].body = <<"x">> => "x" \in globals
          /\ \A i \in 1..Len(trace) : trace[i].body = <<"u">> => trace[i].ret = <<"X">>
          /\ Len(cur.inner) > 0 => globals = {"pyp", "x"}
    /\ cur.n > 0 => \A j \in 1..Len(cur.inner) : "x" \notin cur.inner[j].globals

C11_Witness ==
    /\ stack = <<>> /\ pc = "written" /\ ~cached
    /\ Len(trace) = 3
    /\ trace[3].ret = <<"X">>
    /\ Len(cur.inner) = 1
    /\ cur.inner[1].globals = {"pyp", "y"}
    /\ globals = {"pyp", "x"}

\* C12: when pyp.input returns to the fragment of a.tex that called it, the
\* compile of b.tex is over, every step of it done in order (output written,
\* record persisted or skipped, build command if any); a.tex, whose
\* substitution pass waits in that fragment meanwhile, has then neither
\* written its output nor persisted its record, and its files are untouched
\* while b.tex compiles.
C12_Synchronous ==
    /\ \A j \in 1..Len(stack) :
          /\ stack[j].pc = "subst"
          /\ stack[j].cur.phases = <<"load", "scan", "decide", "recompute">>
          /\ ~stack[j].cur.persisted
    /\ stack /= <<>> =>
          /\ shelf.pyptexfile = Head(stack).pyptexfile
          /\ shelf.cachefile = Head(stack).cachefile
    /\ cur.n > 0 => \A j \in 1..Len(cur.inner) :
          /\ cur.inner[j].pc = "idle"
          /\ cur.inner[j].phases \in LegalOrders
          /\ cur.inner[j].out.state = "ok"
          /\ cur.inner[j].outer = <<"load", "scan", "decide", "recompute">>

C12_Witness ==
    /\ stack = <<>> /\ pc = "saved" /\ cur.persisted
    /\ Len(cur.inner) = 1
    /\ cur.inner[1].phases =
          <<"load", "scan", "decide", "recompute", "write", "resolve", "persist">>
    /\ shelf.cachefile.state = "ok"
    /\ shelf.pyptexfile.state = "ok"
    /\ Len(trace) = 3

\* C21: the accumulator a fragment returns holds what that fragment produced
\* and nothing of the fragments before it; the code is run once, evaluated
\* when it is an expression (its value comes after what it printed) and
\* executed as statements otherwise, never both, also when it raises; every
\* fragment that returns adds one output.
C21_RunEngine ==
    eng.n > 0 =>
        /\ eng.evals + eng.execs = 1
        /\ eng.code.expr <=> eng.evals = 1
        /\ eng.raised <=> eng.code.raises
        /\ ~eng.raised =>
              /\ eng.accum = eng.code.prints \o (IF eng.code.expr THEN <<"v">> ELSE <<>>)
              /\ Len(eng.outputs) = eng.n
              /\ eng.outputs[eng.n] = eng.accum
        /\ eng.raised => Len(eng.outputs) = eng.n - 1

C21_Witness ==
    /\ eng.n >= 2
    /\ ~eng.raised
    /\ eng.code.expr /\ eng.code.prints = <<"p">>
    /\ eng.accum = <<"p", "v">>
    /\ eng.outputs[eng.n - 1] = <<"p">>

\* C22: a record that compile persists has one output for each fragment, in
\* the order of the document, verbatim fragments included; on a cache hit on
\* a record with all its fields the counter is at i - 1 once the i-th
\* fragment is replaced, a plain i-th fragment is replaced by outputs[i], and
\* no index is past the end of outputs.
C22_OutputAlignment ==
    /\ (pc = "saved" /\ cur.persisted) =>
          /\ cachefile.rec = self
          /\ Len(self.outputs) = Len(self.fragments)
          /\ Len(self.outputs) = Len(Calls(text))
          /\ \A i \in 1..Len(trace) :
                 IsPlain(trace[i]) => trace[i].ret = self.outputs[i]
    /\ (cachefile.state = "ok" /\ {"outputs", "fragments"} \subseteq DOMAIN cachefile.rec) =>
          Len(cachefile.rec.outputs) = Len(cachefile.rec.fragments)
    /\ (pc \in {"subst", "written", "saved"} /\ cached /\ cur.lacks = {}) =>
          /\ self.subcount = Len(trace) - 1
          /\ self.subcount < Len(self.outputs)
          /\ self.outputs = cache.outputs
          /\ \A i \in 1..Len(trace) :
                 /\ trace[i].body = self.fragments[i]
                 /\ IsPlain(trace[i]) => trace[i].ret = self.outputs[i]
    /\ (outcome = "IndexError") => cur.lacks /= {}

C22_Witness ==
    /\ pc = "written"
    /\ cached
    /\ cur.lacks = {}
    /\ text = DocMixed
    /\ Len(trace) = 2
    /\ trace[1].o = <<"verbatim">> /\ trace[1].ret = <<"x">>
    /\ trace[2].o = <<>> /\ trace[2].ret = self.outputs[2]
    /\ self.outputs[1] = <<"X">>
    /\ self.outputs[2] /= self.outputs[1]

\* C23: a compile that loads a record lacking one of the five fields takes
\* the cache-miss path and does not fail on the record.
C23_MalformedIsStale ==
    /\ (pc \in {"decided", "subst", "written", "saved"} /\ cur.lacks /= {}) => ~cached
    /\ (cur.n > 0 /\ cur.lacks /= {}) => outcome /= "IndexError"

\* what appender returns for the fragments cs of a document compiled afresh
\* at time now, in globals g
RECURSIVE FreshRets(_, _, _)
FreshRets(cs, g, now) ==
    IF cs = <<>> THEN <<>>
    ELSE LET st == run(Head(cs).body, EmptyDeps, FALSE, g, now)
         IN  <<appender(Head(cs), st.accum)>> \o FreshRets(Tail(cs), st.globals, now)

\* the output file holds what some run of pyptex makes of the text tex
Reflects(out, tex) ==
    /\ out.state = "ok"
    /\ \E n \in 1..MaxRuns : out.text = process(tex, FreshRets(Calls(tex), NewScope({}), n))

\* C24: when pyptex a.tex has returned and nothing outside has changed since
\* it started, b.pyptex is what b.tex, as it is now, compiles to.
C24_NoStaleNested ==
    (stack = <<>> /\ Returned /\ cur.n > 0 /\ cur.envStart = nenv) =>
        Reflects(shelf.pyptexfile, shelf.texfile)

\* C25: the instance of b.tex names, marks drawn and prints no figure that a
\* fragment of a.tex made; a figure of a.tex that is open and not drawn when
\* its fragment calls input is, autoshow being on, printed by the showall of
\* a.tex in that fragment, under a name that is in the table of a.tex.
C25_FiguresStay ==
    figs.n > 0 =>
        /\ figs.inner.named = {}
        /\ figs.inner.marked = {}
        /\ figs.inner.emitted = {}
        /\ figs.inner.deps = {}
        /\ (figs.composed = figs.n /\ figs.autoshow) =>
               \A f \in figs.pending : f \in figs.shown /\ figs.name[f] \in figs.deps

\* the time the table would hold for R as the file m
StampOf(m) == Stamp([disk EXCEPT !["R"] = m], "R")

\* R was written in run race.at after the fragments had seen it, to a file
\* that resolvedeps tells from the one they saw
Raced == race.at > 0 /\ StampOf(race.was) /= StampOf(race.now)

\* C26: the record of a run in which R was written after the fragments saw
\* it holds the time of the R they saw, and the next compile, R being as it
\* was written, takes the cache-miss path.
C26_FingerprintMatchesRead ==
    /\ (Raced /\ cachefile.state = "ok" /\ kept.n = race.at) =>
           cachefile.rec.deps["R"] = StampOf(race.was)
    /\ (Raced /\ pc \in {"decided", "subst", "written", "saved"} /\ cur.n = race.at + 1
          /\ cur.found = "ok" /\ kept.n = race.at /\ disk["R"] = race.now) =>
           ~cached

=============================================================================
